---- MODULE Spec2Model ----
(***************************************************************************)
(* Model of scraper_simple.py: the scored, page-budgeted crawl             *)
(* (scrape_with_crawl), link ranking (find_related_pages, score_url) and   *)
(* the candidate selection that follows it.                                *)
(*                                                                         *)
(* URLs, hrefs and page texts are strings, handled character by character  *)
(* the way the Python code handles them.                                   *)
(***************************************************************************)
EXTENDS Integers, Sequences, FiniteSets, TLC

(***************************************************************************)
(* Python str primitives                                                   *)
(***************************************************************************)
Min(a, b) == IF a < b THEN a ELSE b

\* s[i:j] with 1-based inclusive bounds, clipped like a Python slice
Slice(s, i, j) == SubSeq(s, i, Min(j, Len(s)))

\* k in s
Contains(k, s) == \E i \in 1..(Len(s) - Len(k) + 1) : SubSeq(s, i, i + Len(k) - 1) = k

\* s.endswith(suf)
EndsWith(s, suf) ==
    /\ Len(s) >= Len(suf)
    /\ SubSeq(s, Len(s) - Len(suf) + 1, Len(s)) = suf

\* s.startswith(pre)
StartsWith(s, pre) == Len(s) >= Len(pre) /\ SubSeq(s, 1, Len(pre)) = pre

\* s.find(k, from): 1-based index of the first occurrence at or after from, 0 if none
Find(s, k, from) ==
    LET hits == {i \in from..(Len(s) - Len(k) + 1) : SubSeq(s, i, i + Len(k) - 1) = k}
    IN  IF hits = {} THEN 0 ELSE CHOOSE i \in hits : \A j \in hits : i <= j

UpperCase == "ABCDEFGHIJKLMNOPQRSTUVWXYZ"
LowerCase == "abcdefghijklmnopqrstuvwxyz"

\* upper-case letter |-> its lower-case letter
LowerOf ==
    [ c \in { SubSeq(UpperCase, i, i) : i \in 1..26 } |->
        LET i == CHOOSE i \in 1..26 : SubSeq(UpperCase, i, i) = c
        IN  SubSeq(LowerCase, i, i) ]

lowerChar(c) == IF c \in DOMAIN LowerOf THEN LowerOf[c] ELSE c

\* s[i:].lower(), i counted from 1
RECURSIVE lowerFrom(_, _)
lowerFrom(s, i) ==
    IF i > Len(s) THEN "" ELSE lowerChar(SubSeq(s, i, i)) \o lowerFrom(s, i + 1)

\* str.lower()
lower(s) == lowerFrom(s, 1)

(***************************************************************************)
(* score_url                                                               *)
(***************************************************************************)
keywords ==
    << <<"happy", 5>>, <<"hour", 5>>, <<"special", 3>>, <<"deal", 3>>,
       <<"menu", 2>>, <<"drink", 2>>, <<"food", 1>> >>

PdfBonus == 4

RECURSIVE keywordSum(_, _)
keywordSum(lowerUrl, i) ==
    IF i > Len(keywords) THEN 0
    ELSE (IF Contains(keywords[i][1], lowerUrl) THEN keywords[i][2] ELSE 0)
         + keywordSum(lowerUrl, i + 1)

score_url(url) ==
    LET lowerUrl == lower(url)
    IN  keywordSum(lowerUrl, 1) + (IF EndsWith(lowerUrl, ".pdf") THEN PdfBonus ELSE 0)

(***************************************************************************)
(* urllib.parse as the program uses it                                     *)
(***************************************************************************)
\* first index at or after from of a character of stops, Len(s) + 1 if none
FirstOf(s, stops, from) ==
    LET hits == {i \in from..Len(s) : SubSeq(s, i, i) \in stops}
    IN  IF hits = {} THEN Len(s) + 1 ELSE CHOOSE i \in hits : \A j \in hits : i <= j

\* urlparse(url).scheme for URLs of the form scheme://..., "" otherwise
scheme(url) ==
    LET p == Find(url, "://", 1)
    IN  IF p > 1 /\ FirstOf(url, {"/", "?", "#"}, 1) > p THEN SubSeq(url, 1, p - 1) ELSE ""

\* urlparse(url).netloc: the authority between "//" and the next "/", "?" or "#"
netloc(url) ==
    LET sch   == scheme(url)
        start == IF sch # "" THEN Len(sch) + 4
                 ELSE IF StartsWith(url, "//") THEN 3 ELSE 0
    IN  IF start = 0 THEN ""
        ELSE SubSeq(url, start, FirstOf(url, {"/", "?", "#"}, start) - 1)

\* urlsplit raises ValueError("Invalid IPv6 URL") on an unbalanced bracket in netloc
InvalidUrl(url) ==
    LET n == netloc(url)
    IN  Contains("[", n) # Contains("]", n)

UrlError == "<ValueError>"

\* urljoin(base, href) for an http(s) base and an href without dot segments
urljoin(base, href) ==
    LET root     == scheme(base) \o "://" \o netloc(base)
        pathEnd  == FirstOf(base, {"?", "#"}, 1) - 1
        noQuery  == SubSeq(base, 1, pathEnd)
        slashes  == {i \in (Len(root) + 1)..pathEnd : SubSeq(base, i, i) = "/"}
        lastSl   == IF slashes = {} THEN 0
                    ELSE CHOOSE i \in slashes : \A j \in slashes : j <= i
        dir      == IF lastSl = 0 THEN root \o "/" ELSE SubSeq(base, 1, lastSl)
        noFrag   == SubSeq(base, 1, FirstOf(base, {"#"}, 1) - 1)
    IN  IF href = "" THEN base
        ELSE IF InvalidUrl(href) THEN UrlError
        ELSE IF scheme(href) # "" THEN href
        ELSE IF StartsWith(href, "//") THEN scheme(base) \o ":" \o href
        ELSE IF StartsWith(href, "/") THEN root \o href
        ELSE IF StartsWith(href, "?") THEN noQuery \o href
        ELSE IF StartsWith(href, "#") THEN noFrag \o href
        ELSE dir \o href

\* the URLs the anchors of a fetched page resolve to, raising hrefs left out
LinkTargets(anchors, base) ==
    { urljoin(base, anchors[i].href) : i \in 1..Len(anchors) } \ { UrlError }

(***************************************************************************)
(* The site: what each URL answers.  A response carries the outcome of the *)
(* request, the text the applicable extractor yields from the body, and    *)
(* the <a href> elements of the document in document order, each with the  *)
(* element it sits in.                                                     *)
(***************************************************************************)
A(h) == [href |-> h, inside |-> "body"]
N(h) == [href |-> h, inside |-> "nav"]
F(h) == [href |-> h, inside |-> "footer"]

LongTextLen == 2003

RECURSIVE Rep(_, _)
Rep(s, n) ==
    IF n = 0 THEN "" ELSE IF n = 1 THEN s
    ELSE Rep(s, n \div 2) \o Rep(s, n - (n \div 2))

TxtOne  == "Happy Hour 4-7pm Mon-Fri $5 beers"
TxtTwo  == "HH 3pm to 6pm daily\nhappy hour 9:30 PM - 11 PM\nhh 1-2\nHH 5 to 7"
TxtLong == "Welcome" \o Rep("x", LongTextLen - 7)

Page(t, as) == [status |-> "ok", text |-> t, anchors |-> as]

Pages ==
    { Page(TxtTwo,  << A("/happy-hour"), A("/specials.pdf"), A("/menu"), A("/drink"),
                       A("/about"), A("http://b.co/menu"), N("/happy") >>),
      Page(TxtLong, << A("/specials.pdf?v=1"), A("/menu"), A("/specials.pdf"),
                       F("/hour"), A("/happy-hour"), A("/happy-deal"), A("/hour-deal"),
                       A("/menu"), A("") >>),
      Page(TxtOne,  << A("/specials.pdf"), A("/happy"), A("//["), A("/food") >>) }

Failure(s) == [status |-> s, text |-> "", anchors |-> << >>]

\* requests.get raised (connection, timeout) / raise_for_status raised
Failures == { Failure("fetch_error"), Failure("http_error") }

\* what a URL may answer
Responses == Pages \cup Failures

\* what a URL whose name ends in .pdf may answer
PdfResponses == { Page(TxtOne, << >>), Page("", << >>), Failure("fetch_error") }

BaseUrls == { "http://a.co/", "http://a.co/menu" }

(***************************************************************************)
(* State                                                                   *)
(***************************************************************************)
VARIABLES
    base_url,        \* sys.argv[1]
    has_pdfminer,    \* extract_pdf_text is not None
    site,            \* the static site, as far as it has been requested
    pc,              \* "crawl", "select", "prompt", "done"
    visited,         \* scrape_with_crawl: visited
    urls_to_visit,   \* scrape_with_crawl: urls_to_visit
    all_snippets,    \* scrape_with_crawl: all_snippets
    processed,       \* history: URLs in the order visited.add ran
    requests,        \* history: requests.get calls, with the caller and whether headers were passed
    candidates,      \* candidates
    prompt_blocks,   \* prompt_blocks
    run,             \* which run of the program this is
    first_run,       \* snippets and candidates of the previous run
    score_arg,       \* score_url: url
    score,           \* score_url: the value returned
    response_text,   \* response_text
    result,          \* result, or the error object of line 229
    exit_code        \* exit status of the process

vars == << base_url, has_pdfminer, site, pc, visited, urls_to_visit, all_snippets,
           processed, requests, candidates, prompt_blocks, run, first_run,
           score_arg, score, response_text, result, exit_code >>

\* score_url called on its own / the response of the model, lines 212-230
scoring == << score_arg, score >>
output  == << response_text, result, exit_code >>

\* score_url has not been called
NotScoring == score_arg = "" /\ score = 0

\* the model has not been asked
NoOutput ==
    /\ response_text = ""
    /\ result = [kind |-> "none", body |-> ""]
    /\ exit_code = 0

max_pages == 6

ToSet(s) == { s[i] : i \in 1..Len(s) }

Init ==
    /\ base_url \in BaseUrls
    /\ has_pdfminer \in BOOLEAN
    /\ site = << >>
    /\ pc = "crawl"
    /\ visited = {}
    /\ urls_to_visit = << base_url >>
    /\ all_snippets = << >>
    /\ processed = << >>
    /\ requests = << >>
    /\ candidates = << >>
    /\ prompt_blocks = << >>
    /\ run = 1
    /\ first_run = << >>
    /\ NotScoring
    /\ NoOutput

(***************************************************************************)
(* extract_text_from_html: the soup handed back has lost every script,     *)
(* style, nav, footer and header element, with the anchors inside them.    *)
(***************************************************************************)
StrippedTags == { "script", "style", "nav", "footer", "header" }

soup_anchors(page) == SelectSeq(page.anchors, LAMBDA a : a.inside \notin StrippedTags)

(***************************************************************************)
(* find_related_pages                                                      *)
(***************************************************************************)
RECURSIVE Orders(_)
\* the orders in which iterating over a set of str may yield its elements
Orders(S) ==
    IF S = {} THEN { << >> }
    ELSE LET x == CHOOSE e \in S : TRUE
         IN  { SubSeq(p, 1, i) \o << x >> \o SubSeq(p, i + 1, Len(p)) :
                 p \in Orders(S \ {x}), i \in 0..(Cardinality(S) - 1) }

\* insert u behind every element whose key is at least its own
RECURSIVE InsertByKey(_, _, _)
InsertByKey(sortedSeq, u, key) ==
    IF sortedSeq = << >> THEN << u >>
    ELSE IF key[Head(sortedSeq)] >= key[u]
         THEN << Head(sortedSeq) >> \o InsertByKey(Tail(sortedSeq), u, key)
         ELSE << u >> \o sortedSeq

\* sorted(seq, key=..., reverse=True) with the keys computed once: stable
RECURSIVE SortedDescending(_, _)
SortedDescending(seq, key) ==
    IF seq = << >> THEN << >>
    ELSE InsertByKey(SortedDescending(SubSeq(seq, 1, Len(seq) - 1), key), seq[Len(seq)], key)

\* some urljoin of the loop raises
LinkError(anchors, base) ==
    \E i \in 1..Len(anchors) : urljoin(base, anchors[i].href) = UrlError

\* find_related_pages without the netloc test of line 78
SameDomainLinksUnfiltered(anchors, base) ==
    [ i \in 1..Len(anchors) |-> urljoin(base, anchors[i].href) ]

\* the list named candidates in find_related_pages: same-domain links in document order
SameDomainLinks(anchors, base) ==
    LET resolvedUrls == [i \in 1..Len(anchors) |-> urljoin(base, anchors[i].href)]
    IN  SelectSeq(resolvedUrls, LAMBDA u : netloc(u) = netloc(base))

TopN == 3

\* lines 83-84 without the [:3] cut
RankedListsUncut(links, keys) ==
    UNION { { SelectSeq(SortedDescending(order, key), LAMBDA u : key[u] > 0) :
                order \in Orders(links) } : key \in { keys } }

\* lines 83-84 for each order the set may be iterated in; the keys are
\* computed once per element, as sorted() does
RankedLists(links, keys) ==
    UNION { { Slice(SelectSeq(SortedDescending(order, key), LAMBDA u : key[u] > 0), 1, TopN) :
                order \in Orders(links) } : key \in { keys } }

\* the lists find_related_pages may return when no urljoin raises
find_related_pages(anchors, base) ==
    UNION { RankedLists(links, [ u \in links |-> score_url(u) ]) :
              links \in { ToSet(SameDomainLinks(anchors, base)) } }

(***************************************************************************)
(* scrape_with_crawl                                                       *)
(***************************************************************************)
\* line 118: current_url.lower().endswith('.pdf')
IsPdfUrl(url) == EndsWith(lower(url), ".pdf")

\* what the site answers for url: fixed once it has been requested
Served(url) ==
    IF url \in DOMAIN site THEN { site[url] }
    ELSE IF EndsWith(lower(url), ".pdf") THEN PdfResponses ELSE Responses

\* extract_text_from_pdf_url as if the pdfminer import of line 13 always failed
extract_text_from_pdf_url_unavailable(response) == ""

\* extract_text_from_pdf_url: any failure, and a missing pdfminer, give ""
extract_text_from_pdf_url(response) ==
    IF response.status = "ok" /\ has_pdfminer THEN response.text ELSE ""

\* lines 134-136: for r in related: append unless visited or queued
RECURSIVE Enqueue(_, _, _)
Enqueue(queue, related, vis) ==
    IF related = << >> THEN queue
    ELSE Enqueue(IF Head(related) \notin vis /\ Head(related) \notin ToSet(queue)
                 THEN Append(queue, Head(related)) ELSE queue,
                 Tail(related), vis)

\* lines 139-143 without the test that the link is not in visited
RECURSIVE ExpandLinksRevisiting(_, _, _, _, _)
ExpandLinksRevisiting(anchors, i, current_url, queue, vis) ==
    IF i > Len(anchors) THEN queue
    ELSE LET absolute_url == urljoin(current_url, anchors[i].href)
         IN  IF absolute_url = UrlError THEN queue
             ELSE ExpandLinksRevisiting(anchors, i + 1, current_url,
                      IF /\ netloc(absolute_url) = netloc(base_url)
                         /\ score_url(absolute_url) > 0
                         /\ absolute_url \notin ToSet(queue)
                      THEN Append(queue, absolute_url) ELSE queue,
                      vis)

\* lines 139-143 with insert(0, ...) in place of append
RECURSIVE ExpandLinksAtFront(_, _, _, _, _)
ExpandLinksAtFront(anchors, i, current_url, queue, vis) ==
    IF i > Len(anchors) THEN queue
    ELSE LET absolute_url == urljoin(current_url, anchors[i].href)
         IN  IF absolute_url = UrlError THEN queue
             ELSE ExpandLinksAtFront(anchors, i + 1, current_url,
                      IF /\ netloc(absolute_url) = netloc(base_url)
                         /\ absolute_url \notin vis
                         /\ score_url(absolute_url) > 0
                         /\ absolute_url \notin ToSet(queue)
                      THEN << absolute_url >> \o queue ELSE queue,
                      vis)

\* lines 139-143 without the score test
RECURSIVE ExpandLinksIgnoringScore(_, _, _, _, _)
ExpandLinksIgnoringScore(anchors, i, current_url, queue, vis) ==
    IF i > Len(anchors) THEN queue
    ELSE LET absolute_url == urljoin(current_url, anchors[i].href)
         IN  IF absolute_url = UrlError THEN queue
             ELSE ExpandLinksIgnoringScore(anchors, i + 1, current_url,
                      IF /\ netloc(absolute_url) = netloc(base_url)
                         /\ absolute_url \notin vis
                         /\ absolute_url \notin ToSet(queue)
                      THEN Append(queue, absolute_url) ELSE queue,
                      vis)

\* lines 139-143 without the test that the link is not in urls_to_visit
RECURSIVE ExpandLinksDuplicating(_, _, _, _, _)
ExpandLinksDuplicating(anchors, i, current_url, queue, vis) ==
    IF i > Len(anchors) THEN queue
    ELSE LET absolute_url == urljoin(current_url, anchors[i].href)
         IN  IF absolute_url = UrlError THEN queue
             ELSE ExpandLinksDuplicating(anchors, i + 1, current_url,
                      IF /\ netloc(absolute_url) = netloc(base_url)
                         /\ absolute_url \notin vis
                         /\ score_url(absolute_url) > 0
                      THEN Append(queue, absolute_url) ELSE queue,
                      vis)

\* lines 139-143: the loop over the anchors of a later page; a raising urljoin
\* leaves the loop with what was appended so far
RECURSIVE ExpandLinks(_, _, _, _, _)
ExpandLinks(anchors, i, current_url, queue, vis) ==
    IF i > Len(anchors) THEN queue
    ELSE LET absolute_url == urljoin(current_url, anchors[i].href)
         IN  IF absolute_url = UrlError THEN queue
             ELSE ExpandLinks(anchors, i + 1, current_url,
                      IF /\ netloc(absolute_url) = netloc(base_url)
                         /\ absolute_url \notin vis
                         /\ score_url(absolute_url) > 0
                         /\ absolute_url \notin ToSet(queue)
                      THEN Append(queue, absolute_url) ELSE queue,
                      vis)

\* lines 117-122 without the continue statement of line 122: the PDF is then also
\* fetched and appended as a page
PdfOutcomesFallingThrough(current_url, response, rest) ==
    LET pdf_text == extract_text_from_pdf_url(response)
        snippets == IF pdf_text # "" THEN Append(all_snippets, << current_url, pdf_text >>)
                    ELSE all_snippets
    IN  { [ snippets |-> IF response.status = "ok"
                         THEN Append(snippets, << current_url, response.text >>)
                         ELSE snippets,
            queue    |-> rest ] }

\* lines 117-122 without the test of line 120: an empty text is appended too
PdfOutcomesKeepingEmpty(current_url, response, rest) ==
    LET pdf_text == extract_text_from_pdf_url(response)
    IN  { [ snippets |-> Append(all_snippets, << current_url, pdf_text >>),
            queue    |-> rest ] }

\* lines 117-122: the PDF branch
PdfOutcomes(current_url, response, rest) ==
    LET pdf_text == extract_text_from_pdf_url(response)
    IN  { [ snippets |-> IF pdf_text # "" THEN Append(all_snippets, << current_url, pdf_text >>)
                         ELSE all_snippets,
            queue    |-> rest ] }

\* lines 124-145 without raise_for_status: the body of an error answer is
\* taken for the page
HtmlOutcomesIgnoringStatus(current_url, response, rest, vis) ==
    IF response.status = "fetch_error" THEN { [ snippets |-> all_snippets, queue |-> rest ] }
    ELSE LET snippets == Append(all_snippets, << current_url, response.text >>)
             soup     == soup_anchors(response)
         IN  IF current_url = base_url
             THEN IF LinkError(soup, base_url)
                  THEN { [ snippets |-> snippets, queue |-> rest ] }
                  ELSE { [ snippets |-> snippets, queue |-> Enqueue(rest, related, vis) ] :
                           related \in find_related_pages(soup, base_url) }
             ELSE { [ snippets |-> snippets,
                      queue    |-> ExpandLinks(soup, 1, current_url, rest, vis) ] }

\* lines 124-145: the HTML branch; an exception anywhere ends the iteration
HtmlOutcomes(current_url, response, rest, vis) ==
    IF response.status # "ok" THEN { [ snippets |-> all_snippets, queue |-> rest ] }
    ELSE LET snippets == Append(all_snippets, << current_url, response.text >>)
             soup     == soup_anchors(response)
         IN  IF current_url = base_url
             THEN IF LinkError(soup, base_url)
                  THEN { [ snippets |-> snippets, queue |-> rest ] }
                  ELSE { [ snippets |-> snippets, queue |-> Enqueue(rest, related, vis) ] :
                           related \in find_related_pages(soup, base_url) }
             ELSE { [ snippets |-> snippets,
                      queue    |-> ExpandLinks(soup, 1, current_url, rest, vis) ] }

\* line 110 without the page budget
LoopConditionUnbounded == urls_to_visit # << >>

\* line 110 with <= in place of <
LoopConditionOffByOne == urls_to_visit # << >> /\ Cardinality(visited) <= max_pages

\* line 110: while urls_to_visit and len(visited) < max_pages
LoopCondition == urls_to_visit # << >> /\ Cardinality(visited) < max_pages

\* lines 110-145: one iteration of the while loop
CrawlPage ==
    /\ pc = "crawl"
    /\ LoopCondition
    /\ LET current_url == Head(urls_to_visit)
           rest        == Tail(urls_to_visit)
       IN  IF current_url \in visited
           THEN /\ urls_to_visit' = rest
                /\ UNCHANGED << site, visited, all_snippets, processed, requests >>
           ELSE \E response \in Served(current_url) :
                  /\ site' = (current_url :> response) @@ site
                  /\ visited' = visited \cup { current_url }
                  /\ processed' = Append(processed, current_url)
                  /\ requests' = Append(requests,
                         IF IsPdfUrl(current_url)
                         THEN [ url |-> current_url, by |-> "extract_text_from_pdf_url",
                                user_agent |-> FALSE ]     \* line 88
                         ELSE [ url |-> current_url, by |-> "scrape_with_crawl",
                                user_agent |-> TRUE ])     \* line 124
                  /\ \E out \in IF IsPdfUrl(current_url)
                                THEN PdfOutcomes(current_url, response, rest)
                                ELSE HtmlOutcomes(current_url, response, rest, visited') :
                        /\ all_snippets' = out.snippets
                        /\ urls_to_visit' = out.queue
    /\ UNCHANGED << base_url, has_pdfminer, pc, candidates, prompt_blocks, run, first_run,
                    scoring, output >>

\* line 110 false, line 148: return all_snippets
CrawlReturn ==
    /\ pc = "crawl"
    /\ ~LoopCondition
    /\ pc' = "select"
    /\ UNCHANGED << base_url, has_pdfminer, site, visited, urls_to_visit, all_snippets,
                    processed, requests, candidates, prompt_blocks, run, first_run,
                    scoring, output >>

(***************************************************************************)
(* HAPPY_HOUR_REGEX, matched the way a backtracking engine matches it:     *)
(* every piece lists the positions it may end at, most preferred first.    *)
(* A position is the index of the next character to read.  The en dash of  *)
(* the separator class is not in the alphabet of the modelled texts.       *)
(***************************************************************************)
At(t, i) == IF i >= 1 /\ i <= Len(t) THEN SubSeq(t, i, i) ELSE ""

Digit == { "0", "1", "2", "3", "4", "5", "6", "7", "8", "9" }
Space == { " ", "\t", "\n" }
Separator == { "-", "t", "o", "T", "O" }
Indicators == << "happy hour", "hh" >>

\* \d{1,2}
Digits12(t, i) ==
    IF At(t, i) \notin Digit THEN << >>
    ELSE IF At(t, i + 1) \in Digit THEN << i + 2, i + 1 >> ELSE << i + 1 >>

\* (?::\d{2})?
OptMinutes(t, i) ==
    IF At(t, i) = ":" /\ At(t, i + 1) \in Digit /\ At(t, i + 2) \in Digit
    THEN << i + 3, i >> ELSE << i >>

\* length of the run of characters of class starting at i
RECURSIVE RunLen(_, _, _)
RunLen(t, i, class) == IF At(t, i) \in class THEN 1 + RunLen(t, i + 1, class) ELSE 0

\* i + n, i + n - 1, ..., i + least
Countdown(i, n, least) == [ k \in 1..(n - least + 1) |-> i + n - k + 1 ]

\* \s*
Spaces(t, i) == Countdown(i, RunLen(t, i, Space), 0)

\* (am|pm)?
OptAmPm(t, i) ==
    IF lower(SubSeq(t, i, Min(i + 1, Len(t)))) \in { "am", "pm" } THEN << i + 2, i >> ELSE << i >>

\* [-to]+
Separators(t, i) == Countdown(i, RunLen(t, i, Separator), 1)

\* the ends of piece Then(...) tried from each of ends in turn
RECURSIVE Then(_, _, _)
Then(piece(_, _), t, ends) ==
    IF ends = << >> THEN << >> ELSE piece(t, Head(ends)) \o Then(piece, t, Tail(ends))

\* \d{1,2}(?::\d{2})?\s*(am|pm)?
ClockEnds(t, ends) ==
    Then(OptAmPm, t, Then(Spaces, t, Then(OptMinutes, t, Then(Digits12, t, ends))))

\* group 2 of the pattern, tried at i
TimeRangeEnds(t, i) ==
    ClockEnds(t, Then(Spaces, t, Then(Separators, t, Then(Spaces, t, ClockEnds(t, << i >>)))))

\* the indicator starting at i: its end, 0 if none starts there
IndicatorEnd(t, i) ==
    IF lowerChar(At(t, i)) # "h" THEN 0    \* both indicators begin with h
    ELSE LET hits == { k \in 1..Len(Indicators) :
                         lower(SubSeq(t, i, Min(i + Len(Indicators[k]) - 1, Len(t))))
                           = Indicators[k] }
         IN  IF hits = {} THEN 0
             ELSE i + Len(Indicators[CHOOSE k \in hits : \A l \in hits : k <= l])

Least(S) == CHOOSE i \in S : \A j \in S : i <= j

\* pattern.search(t, pos): [start, end) of the leftmost match at or after pos, << >> if none
Search(t, pos) ==
    LET times  == { j \in pos..Len(t) : At(t, j) \in Digit /\ TimeRangeEnds(t, j) # << >> }
        starts == { i \in pos..Len(t) : /\ IndicatorEnd(t, i) # 0
                                        /\ \E j \in times : j >= IndicatorEnd(t, i) }
    IN  IF starts = {} THEN << >>
        ELSE LET i == Least(starts)
                 j == Least({ k \in times : k >= IndicatorEnd(t, i) })
             IN  << i, Head(TimeRangeEnds(t, j)) >>

\* [m.group(0) for m in HAPPY_HOUR_REGEX.finditer(t)], searching on from pos
RECURSIVE finditer(_, _)
finditer(t, pos) ==
    LET m == Search(t, pos)
    IN  IF m = << >> THEN << >>
        ELSE << SubSeq(t, m[1], m[2] - 1) >> \o finditer(t, m[2])

(***************************************************************************)
(* Candidate selection and the prompt, lines 156-171                       *)
(***************************************************************************)
FallbackLen == 2000
MaxBlocks == 8

\* finditer over the texts the site can serve, computed once per text
ExcerptsOf == [ t \in { r.text : r \in Responses \cup PdfResponses } |-> finditer(t, 1) ]

\* line 158: the matches of one snippet text, in match order
Excerpts(txt) == IF txt \in DOMAIN ExcerptsOf THEN ExcerptsOf[txt] ELSE finditer(txt, 1)

\* lines 159-160: one candidate per match of the snippet of url
MatchesAt(url, excerpts) ==
    [ k \in 1..Len(excerpts) |-> [ url |-> url, text |-> excerpts[k] ] ]

\* lines 157-160
RECURSIVE MatchCandidates(_)
MatchCandidates(snippets) ==
    IF snippets = << >> THEN << >>
    ELSE MatchesAt(Head(snippets)[1], Excerpts(Head(snippets)[2]))
         \o MatchCandidates(Tail(snippets))

\* lines 164-165
FallbackCandidates(snippets) ==
    [ k \in 1..Len(snippets) |->
        [ url |-> snippets[k][1], text |-> Slice(snippets[k][2], 1, FallbackLen) ] ]

\* lines 156-165 with the fallback decided snippet by snippet
RECURSIVE SelectFromPerSnippet(_)
SelectFromPerSnippet(snippets) ==
    IF snippets = << >> THEN << >>
    ELSE (IF Excerpts(Head(snippets)[2]) = << >>
          THEN FallbackCandidates(<< Head(snippets) >>)
          ELSE MatchesAt(Head(snippets)[1], Excerpts(Head(snippets)[2])))
         \o SelectFromPerSnippet(Tail(snippets))

\* lines 156-165
SelectFrom(snippets) ==
    LET found == MatchCandidates(snippets)
    IN  IF found = << >> THEN FallbackCandidates(snippets) ELSE found

\* lines 168-170 without the [:8]
PromptBlocksUncapped(cands) ==
    [ k \in 1..Len(cands) |-> "URL: " \o cands[k].url \o "\n---\n" \o cands[k].text ]

\* lines 168-170
PromptBlocks(cands) ==
    LET kept == Slice(cands, 1, MaxBlocks)
    IN  [ k \in 1..Len(kept) |-> "URL: " \o kept[k].url \o "\n---\n" \o kept[k].text ]

\* lines 152-171, once scrape_with_crawl has returned
SelectCandidates ==
    /\ pc = "select"
    /\ candidates' = SelectFrom(all_snippets)
    /\ prompt_blocks' = PromptBlocks(candidates')
    /\ pc' = "done"
    /\ UNCHANGED << base_url, has_pdfminer, site, visited, urls_to_visit, all_snippets,
                    processed, requests, run, first_run, scoring, output >>

Next == CrawlPage \/ CrawlReturn \/ SelectCandidates

Spec == Init /\ [][Next]_vars

\* the program is sequential code: whatever step is enabled is taken
SpecFair == Init /\ [][Next]_vars /\ WF_vars(Next)

(***************************************************************************)
(* The program run a second time against the same site                     *)
(***************************************************************************)
Rerun ==
    /\ pc = "done"
    /\ run = 1
    /\ run' = 2
    /\ first_run' = [ snippets |-> all_snippets, candidates |-> candidates ]
    /\ pc' = "crawl"
    /\ visited' = {}
    /\ urls_to_visit' = << base_url >>
    /\ all_snippets' = << >>
    /\ processed' = << >>
    /\ requests' = << >>
    /\ candidates' = << >>
    /\ prompt_blocks' = << >>
    /\ UNCHANGED << base_url, has_pdfminer, site, scoring, output >>

NextTwice == Next \/ Rerun

\* every URL a page of the site can link to
UrlUniverse ==
    BaseUrls \cup
    UNION { LinkTargets(p.anchors, b) : p \in Pages, b \in BaseUrls }

\* a site fixed in advance: the entry URL answers entry, every other URL
\* answers other, or pdf where the crawler takes it for a PDF
StaticSite(base, entry, other, pdf) ==
    [ u \in UrlUniverse |->
        IF u = base THEN entry ELSE IF IsPdfUrl(u) THEN pdf ELSE other ]

InitTwice ==
    /\ base_url \in BaseUrls
    /\ has_pdfminer \in BOOLEAN
    /\ site \in { StaticSite(base_url, entry, other, pdf) :
                     entry \in Responses, other \in Responses, pdf \in PdfResponses }
    /\ pc = "crawl"
    /\ visited = {}
    /\ urls_to_visit = << base_url >>
    /\ all_snippets = << >>
    /\ processed = << >>
    /\ requests = << >>
    /\ candidates = << >>
    /\ prompt_blocks = << >>
    /\ run = 1
    /\ first_run = << >>
    /\ NotScoring
    /\ NoOutput

SpecTwice == InitTwice /\ [][NextTwice]_vars

(***************************************************************************)
(* score_url on its own, called on URLs put together from a host, a path   *)
(* and what may follow the path                                            *)
(***************************************************************************)
ScoreHosts == { "https://site.com", "http://happyhour.co" }
ScorePaths == { "", "/", "/about", "/happy-hour-menu.pdf", "/HAPPY/Happy", "/Menu.PDF",
                "/deal-food-drink", "/specials" }
ScoreTails == { "", "?v=1", "#hours", "?file=list.pdf" }

ScoreUrls ==
    { "" } \cup { h \o p \o t : h \in ScoreHosts, p \in ScorePaths, t \in ScoreTails }

\* nothing has been crawled
NotCrawling ==
    /\ base_url = ""
    /\ has_pdfminer = FALSE
    /\ site = << >>
    /\ visited = {}
    /\ urls_to_visit = << >>
    /\ all_snippets = << >>
    /\ processed = << >>
    /\ requests = << >>
    /\ candidates = << >>
    /\ prompt_blocks = << >>
    /\ run = 1
    /\ first_run = << >>

InitScore ==
    /\ pc = "score"
    /\ score_arg \in ScoreUrls
    /\ score = 0
    /\ NotCrawling
    /\ NoOutput

\* lines 51-68: one call of score_url
ScoreUrl ==
    /\ pc = "score"
    /\ score' = score_url(score_arg)
    /\ pc' = "scored"
    /\ UNCHANGED << base_url, has_pdfminer, site, visited, urls_to_visit, all_snippets,
                    processed, requests, candidates, prompt_blocks, run, first_run,
                    score_arg, output >>

SpecScore == InitScore /\ [][ScoreUrl]_vars

(***************************************************************************)
(* json.loads on the texts the model may answer: objects, arrays, strings, *)
(* numbers without exponent, true, false and null.  A position is the      *)
(* index of the next character to read; 0 stands for JSONDecodeError.      *)
(***************************************************************************)
\* json.decoder.WHITESPACE, as far as the modelled texts go
SkipSpace(t, i) == i + RunLen(t, i, Space)

Escapes == { "\"", "\\", "/", "b", "f", "n", "r", "t" }

\* the end of the string whose opening quote precedes i
RECURSIVE StringEnd(_, _)
StringEnd(t, i) ==
    IF i > Len(t) THEN 0
    ELSE IF At(t, i) = "\"" THEN i + 1
    ELSE IF At(t, i) = "\\"
         THEN IF At(t, i + 1) \in Escapes THEN StringEnd(t, i + 2) ELSE 0
    ELSE IF At(t, i) \in { "\n", "\t" } THEN 0     \* control character
    ELSE StringEnd(t, i + 1)

\* NUMBER_RE: -?(0|[1-9]\d*)(\.\d+)?
NumberEnd(t, i) ==
    LET s      == IF At(t, i) = "-" THEN i + 1 ELSE i
        intEnd == IF At(t, s) = "0" THEN s + 1
                  ELSE IF At(t, s) \in Digit THEN s + RunLen(t, s, Digit) ELSE 0
    IN  IF intEnd = 0 THEN 0
        ELSE IF At(t, intEnd) = "." /\ At(t, intEnd + 1) \in Digit
             THEN intEnd + 1 + RunLen(t, intEnd + 1, Digit)
        ELSE intEnd

RECURSIVE ValueEnd(_, _)
RECURSIVE MembersEnd(_, _)
RECURSIVE ElementsEnd(_, _)

\* scan_once: the end of the value starting at i
ValueEnd(t, i) ==
    IF At(t, i) = "\"" THEN StringEnd(t, i + 1)
    ELSE IF At(t, i) = "{"
         THEN IF At(t, SkipSpace(t, i + 1)) = "}" THEN SkipSpace(t, i + 1) + 1
              ELSE MembersEnd(t, SkipSpace(t, i + 1))
    ELSE IF At(t, i) = "["
         THEN IF At(t, SkipSpace(t, i + 1)) = "]" THEN SkipSpace(t, i + 1) + 1
              ELSE ElementsEnd(t, SkipSpace(t, i + 1))
    ELSE IF SubSeq(t, i, Min(i + 3, Len(t))) \in { "null", "true" } THEN i + 4
    ELSE IF SubSeq(t, i, Min(i + 4, Len(t))) = "false" THEN i + 5
    ELSE NumberEnd(t, i)

\* JSONObject: "key" : value, then "," and the next pair or "}"
MembersEnd(t, i) ==
    IF At(t, i) # "\"" \/ StringEnd(t, i + 1) = 0 THEN 0
    ELSE LET colon == SkipSpace(t, StringEnd(t, i + 1))
         IN  IF At(t, colon) # ":" \/ ValueEnd(t, SkipSpace(t, colon + 1)) = 0 THEN 0
             ELSE LET next == SkipSpace(t, ValueEnd(t, SkipSpace(t, colon + 1)))
                  IN  IF At(t, next) = "}" THEN next + 1
                      ELSE IF At(t, next) = "," THEN MembersEnd(t, SkipSpace(t, next + 1))
                      ELSE 0

\* JSONArray: value, then "," and the next value or "]"
ElementsEnd(t, i) ==
    IF ValueEnd(t, i) = 0 THEN 0
    ELSE LET next == SkipSpace(t, ValueEnd(t, i))
         IN  IF At(t, next) = "]" THEN next + 1
             ELSE IF At(t, next) = "," THEN ElementsEnd(t, SkipSpace(t, next + 1))
             ELSE 0

\* number of backslashes that immediately precede position i
RECURSIVE BackslashesBefore(_, _)
BackslashesBefore(t, i) ==
    IF At(t, i - 1) = "\\" THEN 1 + BackslashesBefore(t, i - 1) ELSE 0

\* position i of a JSON text lies inside one of its strings
InsideString(t, i) ==
    Cardinality({ k \in 1..(i - 1) :
                    At(t, k) = "\"" /\ BackslashesBefore(t, k) % 2 = 0 }) % 2 = 1

\* the JSON text t[lo..hi] without the whitespace between its tokens
RECURSIVE Compact(_, _, _)
Compact(t, lo, hi) ==
    IF lo > hi THEN ""
    ELSE IF lo = hi
         THEN IF At(t, lo) \in Space /\ ~InsideString(t, lo) THEN "" ELSE At(t, lo)
    ELSE Compact(t, lo, (lo + hi) \div 2) \o Compact(t, (lo + hi) \div 2 + 1, hi)

DecodeError == "<JSONDecodeError>"

\* json.loads(t): the value t denotes, written without insignificant
\* whitespace, or DecodeError
json_loads(t) ==
    LET start == SkipSpace(t, 1)
        end   == ValueEnd(t, start)
    IN  IF end = 0 \/ SkipSpace(t, end) # Len(t) + 1 THEN DecodeError
        ELSE Compact(t, start, end - 1)

(***************************************************************************)
(* lines 212-230: the answer of the model is turned into the result.  The   *)
(* backquote cannot be written in a string here: the modelled texts, which *)
(* hold no tilde of their own, write ~ for it.                             *)
(***************************************************************************)
Fence == "~~~"

\* group(1) of the pattern of line 220, <fence>(?:json)?\s*(\{.*?\})\s*<fence>,
\* matched at i; "" if it does not match there
FencedAt(t, i) ==
    IF SubSeq(t, i, Min(i + 2, Len(t))) # Fence THEN ""
    ELSE LET open   == SkipSpace(t, IF SubSeq(t, i + 3, Min(i + 6, Len(t))) = "json"
                                    THEN i + 7 ELSE i + 3)
             closes == { k \in (open + 1)..Len(t) :
                           /\ At(t, k) = "}"
                           /\ SubSeq(t, SkipSpace(t, k + 1),
                                     Min(SkipSpace(t, k + 1) + 2, Len(t))) = Fence }
         IN  IF At(t, open) # "{" \/ closes = {} THEN ""
             ELSE SubSeq(t, open, Least(closes))

\* json_match.group(1) of line 220, "" when json_match is None
FencedJson(t) ==
    LET hits == { i \in 1..Len(t) : FencedAt(t, i) # "" }
    IN  IF hits = {} THEN "" ELSE FencedAt(t, Least(hits))

\* the default result of line 224
EmptyResult == json_loads("{\"happyHours\": []}")

Value(v) == [kind |-> "value", body |-> v]

\* str(e) of the exception that reaches line 228
ErrorObject(e) == [kind |-> "error", body |-> e]

Leads  == { "", "Here is the JSON:\n" }
Trails == { "", "\nLet me know." }
Fences == { << "", "" >>, << "~~~json\n", "\n~~~" >>, << "~~~\n", "\n~~~" >>,
            << "~~~json", "~~~" >> }
Bodies ==
    { "{\"happyHours\": []}",
      "{\"happyHours\": [{\"days\": [\"Monday\"], \"startTime\": \"15:00\"}]}",
      "{\"happyHours\": [}",
      "{\"happyHours\": [],}",
      "{'happyHours': []}",
      "No happy hour found.",
      "",
      "[]" }

\* what completion.choices[0].message.content may be
ResponseTexts ==
    { l \o f[1] \o b \o f[2] \o t : l \in Leads, f \in Fences, b \in Bodies, t \in Trails }

InitOutput ==
    /\ pc = "parse"
    /\ response_text \in ResponseTexts
    /\ result = [kind |-> "none", body |-> ""]
    /\ exit_code = 0
    /\ NotCrawling
    /\ NotScoring

\* lines 216-230
ParseResponse ==
    /\ pc = "parse"
    /\ \E direct \in { json_loads(response_text) }, fenced \in { FencedJson(response_text) } :
          IF direct # DecodeError
          THEN result' = Value(direct) /\ exit_code' = 0
          ELSE IF fenced # ""
               THEN IF json_loads(fenced) # DecodeError
                    THEN result' = Value(json_loads(fenced)) /\ exit_code' = 0
                    ELSE result' = ErrorObject(DecodeError) /\ exit_code' = 1
               ELSE result' = Value(EmptyResult) /\ exit_code' = 0
    /\ pc' = "exit"
    /\ UNCHANGED << base_url, has_pdfminer, site, visited, urls_to_visit, all_snippets,
                    processed, requests, candidates, prompt_blocks, run, first_run,
                    scoring, response_text >>

SpecOutput == InitOutput /\ [][ParseResponse]_vars

(***************************************************************************)
(* Properties                                                              *)
(***************************************************************************)
NoDuplicates(seq) == \A i, j \in 1..Len(seq) : i # j => seq[i] # seq[j]

\* url was requested as an HTML page and answered
FetchedHtml(url) == url \in DOMAIN site /\ ~IsPdfUrl(url) /\ site[url].status = "ok"

\* C1: the visited set never holds more than 6 URLs, and no more than 6 URLs
\* are popped from the frontier and processed (one request each) in a crawl,
\* however many links were discovered.
PageBudgetRespected ==
    /\ Cardinality(visited) <= max_pages
    /\ Len(processed) <= max_pages
    /\ Len(requests) <= max_pages

\* the budget stopped a crawl that had failures and still had links queued
BudgetExhaustedWithLinksLeft ==
    /\ pc = "select"
    /\ Cardinality(visited) = max_pages
    /\ urls_to_visit # << >>
    /\ \E u \in visited : site[u].status # "ok"

\* C2: every URL is marked visited at most once per crawl, and a URL that is
\* in the visited set is never in the frontier again, whatever the pages link to.
VisitedOnceNeverRequeued ==
    /\ NoDuplicates(processed)
    /\ \A u \in visited : u \notin ToSet(urls_to_visit)

\* a later page that links to itself and back to the entry URL was expanded
LinkedBackToVisited ==
    \E u \in visited \ { base_url } :
        /\ FetchedHtml(u)
        /\ { u, base_url } \subseteq LinkTargets(soup_anchors(site[u]), u)
        /\ score_url(u) > 0
        /\ score_url(base_url) > 0

\* C3: every URL in the frontier and in the visited set has the netloc of the
\* entry URL.
OnlyEntryDomain ==
    \A u \in visited \cup ToSet(urls_to_visit) : netloc(u) = netloc(base_url)

CrossDomainTargets(url) ==
    { t \in LinkTargets(soup_anchors(site[url]), url) :
        netloc(t) # netloc(base_url) /\ score_url(t) > 0 }

\* the entry page and a later page both carried a positive-scoring link to
\* another authority
CrossDomainLinksSeen ==
    /\ FetchedHtml(base_url)
    /\ CrossDomainTargets(base_url) # {}
    /\ \E u \in visited \ { base_url } : FetchedHtml(u) /\ CrossDomainTargets(u) # {}

\* the entry page has just been fetched, parsed and expanded without error
EntryExpanded ==
    /\ processed = << base_url >>
    /\ FetchedHtml(base_url)
    /\ ~LinkError(soup_anchors(site[base_url]), base_url)

\* the same-domain, positive-scoring URLs that anchors link to from the entry page
PositiveLinks(anchors) ==
    { t \in LinkTargets(anchors, base_url) :
        netloc(t) = netloc(base_url) /\ score_url(t) > 0 }

\* the frontier holds the top 3 of links, in non-increasing score order,
\* less the visited ones
FrontierIsTopThreeOf(links) ==
    /\ NoDuplicates(urls_to_visit)
    /\ \A i, j \in 1..Len(urls_to_visit) :
          i < j => score_url(urls_to_visit[i]) >= score_url(urls_to_visit[j])
    /\ \E top \in SUBSET links :
          /\ Cardinality(top) = Min(3, Cardinality(links))
          /\ \A a \in top, b \in links \ top : score_url(a) >= score_url(b)
          /\ ToSet(urls_to_visit) = top \ visited

\* C4 as stated: after the entry page is processed, the frontier holds the 3
\* highest-scoring of the positive-scoring same-domain links of the page, in
\* non-increasing score order, less the visited ones.
EntryEnqueuesTopThreeOfPage ==
    EntryExpanded => FrontierIsTopThreeOf(PositiveLinks(site[base_url].anchors))

\* C4 amended: the same, for the links of the page that lie outside its
\* script, style, nav, footer and header elements.
EntryEnqueuesTopThreeOfBody ==
    EntryExpanded => FrontierIsTopThreeOf(PositiveLinks(soup_anchors(site[base_url])))

\* the entry page had more than 3 positive-scoring links outside the stripped
\* elements, one of them to itself, one link of score 0 and one inside a nav
EntryCutApplied ==
    /\ EntryExpanded
    /\ Cardinality(PositiveLinks(soup_anchors(site[base_url]))) > 3
    /\ base_url \in PositiveLinks(soup_anchors(site[base_url]))
    /\ \E t \in LinkTargets(site[base_url].anchors, base_url) : score_url(t) = 0
    /\ PositiveLinks(site[base_url].anchors) # PositiveLinks(soup_anchors(site[base_url]))
    /\ urls_to_visit # << >>

\* seq without the later occurrences of its elements
RECURSIVE FirstOccurrences(_)
FirstOccurrences(seq) ==
    IF seq = << >> THEN << >>
    ELSE LET front == FirstOccurrences(SubSeq(seq, 1, Len(seq) - 1))
         IN  IF seq[Len(seq)] \in ToSet(front) THEN front ELSE Append(front, seq[Len(seq)])

\* the top 3 positive-scoring links of the entry page, equal scores kept in
\* the order their first anchors occur on the page
TopThreeByDiscovery ==
    LET links == FirstOccurrences(SameDomainLinks(soup_anchors(site[base_url]), base_url))
        key   == [ u \in ToSet(links) |-> score_url(u) ]
    IN  Slice(SelectSeq(SortedDescending(links, key), LAMBDA u : key[u] > 0), 1, 3)

\* C5 as stated: entry-page links of equal score are enqueued in discovery
\* order, and a top-3 cut inside a group of equal scores keeps the earlier ones.
TiesInDiscoveryOrder ==
    EntryExpanded =>
        urls_to_visit = SelectSeq(TopThreeByDiscovery, LAMBDA u : u \notin visited)

\* C6 as stated: a second run against the same site returns the snippets and
\* the candidates of the first run.
SecondRunRepeatsFirst ==
    (run = 2 /\ pc = "done") =>
        /\ all_snippets = first_run.snippets
        /\ candidates = first_run.candidates

\* this step pops and processes a URL that the crawler takes for a page
ProcessesPage ==
    /\ pc = "crawl"
    /\ processed' # processed
    /\ ~IsPdfUrl(Head(urls_to_visit))

\* requests.get, raise_for_status or the HTML parser raised on url
FetchFailed(url) == site'[url].status # "ok"

\* the page was parsed and a urljoin raised while its links were read
LinkResolutionFailed(url) ==
    site'[url].status = "ok" /\ LinkError(soup_anchors(site'[url]), url)

IsPrefix(p, seq) == Len(p) <= Len(seq) /\ SubSeq(seq, 1, Len(p)) = p

\* the anchors of a page ahead of the first one whose href does not resolve
AnchorsBeforeError(anchors, base) ==
    SubSeq(anchors, 1,
           Least({ i \in 1..Len(anchors) : urljoin(base, anchors[i].href) = UrlError }) - 1)

SnippetUrls == [ i \in 1..Len(all_snippets) |-> all_snippets[i][1] ]

SnippetSourcesDistinct == NoDuplicates(SnippetUrls)

\* pages and a PDF gave snippets while another visited URL gave none
SnippetsFromPagesAndPdf ==
    /\ Len(all_snippets) >= 3
    /\ \E i \in 1..Len(all_snippets) : IsPdfUrl(all_snippets[i][1])
    /\ \E u \in visited : u \notin ToSet(SnippetUrls)

\* number of matches in the snippets ahead of snippet i
RECURSIVE MatchesBefore(_)
MatchesBefore(i) ==
    IF i <= 1 THEN 0 ELSE MatchesBefore(i - 1) + Len(Excerpts(all_snippets[i - 1][2]))

SomeSnippetMatches == \E i \in 1..Len(all_snippets) : Excerpts(all_snippets[i][2]) # << >>

\* C9: the prompt blocks are the first 8 candidates (all, if fewer), in
\* production order: snippet by snippet and, within a snippet, match by match.
PromptHoldsFirstEight ==
    pc = "done" =>
        /\ Len(prompt_blocks) = Min(Len(candidates), 8)
        /\ Len(prompt_blocks) <= 8
        /\ \A k \in 1..Len(prompt_blocks) :
              prompt_blocks[k] = "URL: " \o candidates[k].url \o "\n---\n" \o candidates[k].text
        /\ SomeSnippetMatches =>
              /\ Len(candidates) = MatchesBefore(Len(all_snippets) + 1)
              /\ \A i \in 1..Len(all_snippets) :
                    \A m \in 1..Len(Excerpts(all_snippets[i][2])) :
                       candidates[MatchesBefore(i) + m] =
                         [ url |-> all_snippets[i][1], text |-> Excerpts(all_snippets[i][2])[m] ]

\* more than 8 candidates were produced
MoreThanEightCandidates == pc = "done" /\ Len(candidates) > 8

\* C10: when no snippet matched there is one candidate per snippet, in
\* snippet order, holding the first 2000 characters of its text; when some
\* snippet matched every candidate is a match of its own snippet.
FallbackOnlyWithoutMatch ==
    pc = "done" =>
        IF ~SomeSnippetMatches
        THEN /\ Len(candidates) = Len(all_snippets)
             /\ \A k \in 1..Len(candidates) :
                   /\ candidates[k].url = all_snippets[k][1]
                   /\ Len(candidates[k].text) = Min(Len(all_snippets[k][2]), 2000)
                   /\ IsPrefix(candidates[k].text, all_snippets[k][2])
        ELSE \A k \in 1..Len(candidates) :
                \E i \in 1..Len(all_snippets) :
                   /\ candidates[k].url = all_snippets[i][1]
                   /\ candidates[k].text \in ToSet(Excerpts(all_snippets[i][2]))

\* no snippet matched and a text longer than 2000 characters was cut
FallbackTruncated ==
    /\ pc = "done"
    /\ ~SomeSnippetMatches
    /\ Len(candidates) >= 2
    /\ \E k \in 1..Len(candidates) :
          Len(all_snippets[k][2]) > 2000 /\ Len(candidates[k].text) = 2000

\* the entry page was fetched and parsed and every href on it resolved
EntryLinksRead ==
    /\ FetchedHtml(base_url)
    /\ ~LinkError(soup_anchors(site[base_url]), base_url)

\* the same-domain, positive-scoring URLs ending in specials.pdf among anchors
SpecialsPdfLinks(anchors) ==
    { u \in PositiveLinks(anchors) : EndsWith(u, "specials.pdf") }

\* text extraction of the PDF at u returns the sample text, whenever it is asked for
PdfExtractionReturnsSample(u) ==
    /\ has_pdfminer
    /\ u \in DOMAIN site => site[u].status = "ok" /\ site[u].text = TxtOne

\* the first 8 candidates hold one from u whose text is a non-empty excerpt of
\* the sample text
AmongCappedCandidates(u) ==
    \E k \in 1..Min(Len(candidates), MaxBlocks) :
        /\ candidates[k].url = u
        /\ candidates[k].text # ""
        /\ Contains(candidates[k].text, TxtOne)

\* fewer than 3 other positive-scoring links of anchors score as much as u
RanksInTopThree(u, anchors) ==
    Cardinality({ v \in PositiveLinks(anchors) \ { u } : score_url(v) >= score_url(u) }) < TopN

SnippetIndex(u) == CHOOSE i \in 1..Len(all_snippets) : all_snippets[i][1] = u

path(url) ==
    LET sch   == scheme(url)
        start == IF sch # "" THEN Len(sch) + 4 + Len(netloc(url))
                 ELSE IF StartsWith(url, "//") THEN 3 + Len(netloc(url)) ELSE 1
    IN  SubSeq(url, start, FirstOf(url, {"?", "#"}, start) - 1)

Weight(keyword, points, text) == IF Contains(keyword, text) THEN points ELSE 0

\* the score the claim gives url
ClaimedScore(url) ==
    Weight("happy", 5, lower(url)) + Weight("hour", 5, lower(url))
    + Weight("special", 3, lower(url)) + Weight("deal", 3, lower(url))
    + Weight("menu", 2, lower(url)) + Weight("drink", 2, lower(url))
    + Weight("food", 1, lower(url))
    + (IF EndsWith(lower(path(url)), ".pdf") THEN 4 ELSE 0)

\* C12 as stated: score_url(url) is the sum of the weights of the keywords that
\* occur in the lower-cased URL, each counted once, plus 4 if the path of the
\* URL ends with .pdf in any letter case; the empty string scores 0 and
\* score("https://site.com/happy-hour-menu.pdf") > score("https://site.com/about").
ScoreIsKeywordsPlusPdfPath ==
    /\ pc = "scored" => score = ClaimedScore(score_arg)
    /\ (pc = "scored" /\ score_arg = "") => score = 0
    /\ score_url("https://site.com/happy-hour-menu.pdf") > score_url("https://site.com/about")

\* direct parsing fails, and there is no fenced block or its content is not JSON
Unparseable(t) ==
    /\ json_loads(t) = DecodeError
    /\ \E fenced \in { FencedJson(t) } : fenced = "" \/ json_loads(fenced) = DecodeError

\* C13 as stated: when the response of the model cannot be turned into JSON,
\* directly or from a fenced block, the result is {"happyHours": []} and the
\* exit status is 0; no error object is printed.
UnparseableGivesEmptyResult ==
    (pc = "exit" /\ Unparseable(response_text)) =>
        /\ result = Value(EmptyResult)
        /\ exit_code = 0

\* C14 as stated: every request of a crawl, for a page or for a PDF, carries
\* the custom User-Agent header.
EveryRequestCarriesUserAgent ==
    \A i \in 1..Len(requests) : requests[i].user_agent

\* the path of url ends with .pdf in any letter case
PathEndsWithPdf(url) == EndsWith(lower(path(url)), ".pdf")

\* C15 as stated: a frontier URL whose path ends in .pdf, also one with a
\* query string or fragment behind the path, is never fetched as HTML; it
\* gives a snippet exactly if the extracted PDF text is non-empty, adds no
\* link to the frontier, and the crawl goes on after it.
PdfPathsAreLeaves ==
    [][ ( /\ pc = "crawl"
          /\ processed' # processed
          /\ PathEndsWithPdf(Head(urls_to_visit)) )
        => LET url == Head(urls_to_visit)
           IN  /\ requests'[Len(requests')].by = "extract_text_from_pdf_url"
               /\ all_snippets' =
                     IF site'[url].status = "ok" /\ has_pdfminer /\ site'[url].text # ""
                     THEN Append(all_snippets, << url, site'[url].text >>)
                     ELSE all_snippets
               /\ urls_to_visit' = Tail(urls_to_visit)
               /\ pc' = "crawl" ]_vars

\* the links of anchors, resolved against url, that a later page has to add
\* behind queue: same domain as the entry URL, positive score, not visited,
\* not queued, each once, in the order of their first anchors
NewLinks(anchors, url, vis, queue) ==
    FirstOccurrences(
        SelectSeq([ i \in 1..Len(anchors) |-> urljoin(url, anchors[i].href) ],
                  LAMBDA u : /\ netloc(u) = netloc(base_url)
                             /\ score_url(u) > 0
                             /\ u \notin vis
                             /\ u \notin ToSet(queue)))

\* this step pops a page other than the entry page, fetches and parses it and
\* resolves every href it reads: nothing is raised
ProcessesLaterPage ==
    /\ ProcessesPage
    /\ Head(urls_to_visit) # base_url
    /\ site'[Head(urls_to_visit)].status = "ok"
    /\ ~LinkError(soup_anchors(site'[Head(urls_to_visit)]), Head(urls_to_visit))

\* C16 as stated: a later page appends every same-domain link on it with
\* score > 0 that is neither visited nor queued, uncapped and in anchor
\* order, and appends no link of score 0.
LaterPageAppendsLinksOfPage ==
    [][ ProcessesLaterPage =>
          urls_to_visit' =
             Tail(urls_to_visit) \o
             NewLinks(site'[Head(urls_to_visit)].anchors, Head(urls_to_visit),
                      visited', Tail(urls_to_visit)) ]_vars

\* C16 amended: the same, for the links of the page that lie outside its
\* script, style, nav, footer and header elements.
LaterPageAppendsLinksOfBody ==
    [][ ProcessesLaterPage =>
          urls_to_visit' =
             Tail(urls_to_visit) \o
             NewLinks(soup_anchors(site'[Head(urls_to_visit)]), Head(urls_to_visit),
                      visited', Tail(urls_to_visit)) ]_vars

\* the second page processed has just put 4 of its links at the end of the
\* frontier, not in score order, and left out a link of score 0 or to itself
\* and a positive-scoring link inside a stripped element
LaterPageAppendedFour ==
    /\ pc = "crawl"
    /\ Len(processed) = 2
    /\ FetchedHtml(processed[2])
    /\ ~LinkError(site[processed[2]].anchors, processed[2])
    /\ Len(urls_to_visit) >= 4
    /\ LET url  == processed[2]
           n    == Len(urls_to_visit)
           last == SubSeq(urls_to_visit, n - 3, n)
       IN  /\ ToSet(last) \subseteq LinkTargets(soup_anchors(site[url]), url)
           /\ \E i, j \in 1..4 : i < j /\ score_url(last[i]) < score_url(last[j])
           /\ \E t \in LinkTargets(soup_anchors(site[url]), url) :
                 t \notin ToSet(urls_to_visit) /\ (score_url(t) = 0 \/ t = url)
           /\ \E t \in LinkTargets(site[url].anchors, url) :
                 /\ t \notin LinkTargets(soup_anchors(site[url]), url)
                 /\ score_url(t) > 0
                 /\ t \notin ToSet(urls_to_visit)

\* position of u in processed
ProcessedAt(u) == CHOOSE i \in 1..Len(processed) : processed[i] = u

\* C17: URLs are processed in the order in which they were appended to the
\* frontier, the entry URL first: the URLs processed so far followed by the
\* frontier only ever grow at the end; and the snippets are in the order in
\* which their source URLs were processed.
ProcessedInFrontierOrder ==
    /\ [][ IsPrefix(processed \o urls_to_visit, processed' \o urls_to_visit') ]_vars
    /\ [](processed # << >> => processed[1] = base_url)
    /\ [](/\ ToSet(SnippetUrls) \subseteq ToSet(processed)
          /\ \A i, j \in 1..Len(all_snippets) :
                i < j => ProcessedAt(SnippetUrls[i]) < ProcessedAt(SnippetUrls[j]))

\* a link found on a later page was processed behind an earlier-queued link
\* of lower score, and both gave snippets
LowerScoreProcessedFirst ==
    /\ FetchedHtml(base_url)
    /\ \E i, j \in 2..Len(processed) :
          /\ i < j
          /\ score_url(processed[i]) < score_url(processed[j])
          /\ processed[i] \in LinkTargets(soup_anchors(site[base_url]), base_url)
          /\ processed[j] \notin LinkTargets(soup_anchors(site[base_url]), base_url)
          /\ { processed[i], processed[j] } \subseteq ToSet(SnippetUrls)

\* C18: every crawl ends: scrape_with_crawl returns, after at most 6 pages
\* have been processed, and it returns exactly when the frontier is empty or
\* 6 URLs have been visited.
CrawlTerminates ==
    /\ <>(pc # "crawl")
    /\ [](Len(processed) <= 6)
    /\ [][ (pc = "crawl" /\ pc' # "crawl") =>
             (urls_to_visit = << >> \/ Cardinality(visited) = 6) ]_vars
    /\ [][ (pc = "crawl" /\ pc' = "crawl") =>
             (urls_to_visit # << >> /\ Cardinality(visited) < 6) ]_vars

\* a crawl over pages that link to themselves and back to the entry URL has
\* returned with 6 URLs visited and more links queued
ReturnedFromCyclicSite ==
    /\ pc = "done"
    /\ Cardinality(visited) = 6
    /\ urls_to_visit # << >>
    /\ \E u \in visited \ { base_url } :
          /\ FetchedHtml(u)
          /\ { u, base_url } \subseteq LinkTargets(soup_anchors(site[u]), u)

\* C19: at the start of every loop iteration the frontier holds no URL twice
\* and no visited URL; so no iteration skips its URL, and every iteration
\* adds exactly the URL it popped, a new one, to the visited set.
FrontierFreshAndDistinct ==
    /\ [](NoDuplicates(urls_to_visit) /\ ToSet(urls_to_visit) \cap visited = {})
    /\ [][ (pc = "crawl" /\ pc' = "crawl")
            => /\ Head(urls_to_visit) \notin visited
               /\ visited' = visited \cup { Head(urls_to_visit) }
               /\ Cardinality(visited') = Cardinality(visited) + 1 ]_vars

\* two later pages that both link to one URL still waiting in the frontier,
\* the second of them linking to the entry page as well
SharedLinkQueuedOnce ==
    /\ pc = "crawl"
    /\ \E i, j \in 2..Len(processed) :
          /\ i < j
          /\ FetchedHtml(processed[i])
          /\ FetchedHtml(processed[j])
          /\ base_url \in LinkTargets(soup_anchors(site[processed[j]]), processed[j])
          /\ \E t \in ToSet(urls_to_visit) :
                /\ t \in LinkTargets(soup_anchors(site[processed[i]]), processed[i])
                /\ t \in LinkTargets(soup_anchors(site[processed[j]]), processed[j])

\* C20: a URL whose fetch fails, or whose PDF gives no text, is in the visited
\* set all the same and has no snippet; there are never more snippets than
\* visited URLs, and never more than 6 visited URLs; and a crawl whose entry
\* fetch failed ends with the entry URL alone in visited and no snippet.
NoSnippet(u) ==
    \/ site[u].status # "ok"
    \/ IsPdfUrl(u) /\ extract_text_from_pdf_url(site[u]) = ""

FailuresConsumeBudget ==
    /\ \A i \in 1..Len(requests) : requests[i].url \in visited
    /\ \A u \in DOMAIN site : NoSnippet(u) => u \in visited /\ u \notin ToSet(SnippetUrls)
    /\ Len(all_snippets) <= Cardinality(visited)
    /\ Cardinality(visited) <= 6
    /\ (pc # "crawl" /\ site[base_url].status # "ok")
          => visited = { base_url } /\ all_snippets = << >>

\* the budget of 6 was used up by four pages, a failed fetch and a PDF
\* without text, with links still waiting
BudgetSpentOnFailures ==
    /\ pc = "done"
    /\ Cardinality(visited) = 6
    /\ urls_to_visit # << >>
    /\ Len(all_snippets) = 4
    /\ \E u, p \in visited :
          /\ ~IsPdfUrl(u) /\ site[u].status # "ok"
          /\ IsPdfUrl(p) /\ extract_text_from_pdf_url(site[p]) = ""

\* the entry fetch failed and the program went on without any page
EntryFetchFailed ==
    /\ pc = "done"
    /\ site[base_url].status # "ok"
    /\ visited = { base_url }
    /\ all_snippets = << >>

====
